---- MODULE Spec2Model ----
(***************************************************************************)
(* Model of two pieces of snarkOS:                                         *)
(*   - algorithms/src/crh/pedersen.rs : bytes_to_bits and PedersenCRH::hash *)
(*     in its sequential build and in its pedersen-parallel build;         *)
(*   - network/src/server/mod.rs : process_transaction_internal and        *)
(*     propagate_block.                                                    *)
(* Spec is the specification of the hash, NetSpec that of the relay.       *)
(***************************************************************************)
EXTENDS Integers, Sequences, FiniteSets

VARIABLES
    WINDOW_SIZE,   \* S::WINDOW_SIZE of the size descriptor S
    NUM_WINDOWS,   \* S::NUM_WINDOWS of the size descriptor S
    bases,         \* self.parameters.bases : Vec<Vec<G>>
    input,         \* the argument of hash : &[u8]
    pc,            \* position of the hash harness
    result,        \* what the sequential build of hash returned
    paired,        \* the (bits, powers) pairs the sequential build iterated over
    partials,      \* pedersen-parallel: window sums not yet reduced
    identities,    \* pedersen-parallel: identity elements reduce has inserted
    par_result,    \* what the pedersen-parallel build of hash returned
    peer_book,     \* context.peer_book.peers.addresses, in iteration order
    connections,   \* addresses with a channel in context.connections
    local_addr,    \* context.local_addr
    failing,       \* channels whose write returns a SendError
    memory_pool,   \* transactions held by the memory pool
    net_pc,        \* position of the relay function being executed
    op,            \* which relay function is executing
    origin,        \* transaction_sender / block_miner
    data,          \* transaction_bytes / data
    inserted,      \* process_transaction_internal: how deserialize and insert went
    cursor,        \* number of peer-book entries the loop has gone through
    written,       \* addresses written to by this execution, in order
    ret            \* what the relay function returned

hashVars == <<WINDOW_SIZE, NUM_WINDOWS, bases, input, pc, result, paired,
              partials, identities, par_result>>
netVars == <<peer_book, connections, local_addr, failing, memory_pool, net_pc,
             op, origin, data, inserted, cursor, written, ret>>
vars == <<hashVars, netVars>>

----------------------------------------------------------------------------
\* Bounds of the model.

MaxWindowSize == 8
MaxNumWindows == 2
MaxInputLen == 3
MaxIdentities == 1
GroupOrder == 65521
NumAddrs == 4

\* Byte values the inputs are drawn from (u8 values, all eight bits kept).
ByteVals == {0, 1, 150, 255}
\* Seeds of the parameter families the bases are drawn from.
Seeds == {1, 3}

Min(a, b) == IF a < b THEN a ELSE b

RECURSIVE Pow2(_)
Pow2(k) == IF k = 0 THEN 1 ELSE 2 * Pow2(k - 1)

----------------------------------------------------------------------------
\* The group G (an additive group; here the integers modulo GroupOrder).

GZero == 0

GAdd(a, b) == (a + b) % GroupOrder

RECURSIVE GDouble(_, _)
GDouble(g, k) == IF k = 0 THEN g % GroupOrder ELSE GDouble(GAdd(g, g), k - 1)

\* A base of a parameter family: seed * 2^(position) in the group.
Base(seed, i, j) == GDouble(seed, (i - 1) * (MaxWindowSize + 2) + (j - 1))

\* Parameters with the given window lengths.
MakeBases(seed, lens) ==
    [i \in 1..Len(lens) |-> [j \in 1..lens[i] |-> Base(seed, i, j)]]

----------------------------------------------------------------------------
\* algorithms/src/crh/pedersen.rs

BytesToBitsMsbFirst(bytes) ==
    [k \in 1..(Len(bytes) * 8) |->
        ((bytes[((k - 1) \div 8) + 1] \div Pow2(7 - ((k - 1) % 8))) % 2) = 1]

bytes_to_bits(bytes) ==
    [k \in 1..(Len(bytes) * 8) |->
        ((bytes[((k - 1) \div 8) + 1] \div Pow2((k - 1) % 8)) % 2) = 1]

INPUT_SIZE_BITS == WINDOW_SIZE * NUM_WINDOWS

InputTooLongOffByOne(in) == (Len(in) * 8) >= WINDOW_SIZE * NUM_WINDOWS

\* line 42: the capacity check
InputTooLong(in) == (Len(in) * 8) > WINDOW_SIZE * NUM_WINDOWS

PadWithOnes(in) ==
    IF (Len(in) * 8) < WINDOW_SIZE * NUM_WINDOWS
    THEN in \o [k \in 1..(((WINDOW_SIZE * NUM_WINDOWS) \div 8) - Len(in)) |-> 1]
    ELSE in

PadOneShort(in) ==
    IF (Len(in) * 8) < WINDOW_SIZE * NUM_WINDOWS
    THEN in \o [k \in 1..(((WINDOW_SIZE * NUM_WINDOWS) \div 8) - Len(in) - 1) |-> 0]
    ELSE in

\* lines 50-59: the padded input (the range len..cap/8 is empty when
\* len >= cap/8, so nothing is appended then)
PaddedInput(in) ==
    IF (Len(in) * 8) < WINDOW_SIZE * NUM_WINDOWS
    THEN in \o [k \in 1..(((WINDOW_SIZE * NUM_WINDOWS) \div 8) - Len(in)) |-> 0]
    ELSE in

ShapeMismatchAlsoFirstWindow(b) ==
    Len(b) # NUM_WINDOWS \/ Len(b[1]) # WINDOW_SIZE

\* line 61: the parameter shape check
ShapeMismatch(b) == Len(b) # NUM_WINDOWS

\* slice::chunks(n): consecutive chunks of n elements, the last one shorter
\* when n does not divide the length
Chunks(s, n) ==
    [c \in 1..((Len(s) + n - 1) \div n) |->
        SubSeq(s, (c - 1) * n + 1, Min(c * n, Len(s)))]

\* Iterator::zip: stops at the shorter of the two
Zip(a, b) == [k \in 1..Min(Len(a), Len(b)) |-> <<a[k], b[k]>>]

\* lines 94-100: the sum of one window
RECURSIVE WindowSumFrom(_, _, _)
WindowSumFrom(encoded, pairs, k) ==
    IF k > Len(pairs) THEN encoded
    ELSE WindowSumFrom(IF pairs[k][1] THEN GAdd(encoded, pairs[k][2]) ELSE encoded,
                       pairs, k + 1)

WindowSum(bits, powers) == WindowSumFrom(GZero, Zip(bits, powers), 1)

\* lines 90-93: what the map closure is applied to
Paired(in, b) == Zip(Chunks(bytes_to_bits(PaddedInput(in)), WINDOW_SIZE), b)

\* the window sums, in window order
WindowSums(in, b) ==
    [k \in 1..Len(Paired(in, b)) |-> WindowSum(Paired(in, b)[k][1], Paired(in, b)[k][2])]

\* line 102: fold(G::zero(), |a, b| a + &b)
RECURSIVE Fold(_, _, _)
Fold(acc, s, k) == IF k > Len(s) THEN acc ELSE Fold(GAdd(acc, s[k]), s, k + 1)

Outcome(kind, value, args) == [kind |-> kind, value |-> value, args |-> args]

NoOutcome == Outcome("none", GZero, <<>>)

\* lines 42-68: the checks both builds share; "continue" when they pass.
\* bases[0] of an empty vector panics (index out of bounds).
Checks(in, b) ==
    IF InputTooLong(in)
    THEN Outcome("IncorrectInputLength", GZero, <<Len(in), WINDOW_SIZE, NUM_WINDOWS>>)
    ELSE IF ShapeMismatch(b)
    THEN IF Len(b) = 0
         THEN Outcome("panic", GZero, <<>>)
         ELSE Outcome("IncorrectParameterSize", GZero,
                      <<Len(b[1]), Len(b), WINDOW_SIZE, NUM_WINDOWS>>)
    ELSE Outcome("continue", GZero, <<>>)

\* lines 41-107, not(feature = "pedersen-parallel")
hash(in, b) ==
    IF Checks(in, b).kind # "continue" THEN Checks(in, b)
    ELSE Outcome("Ok", Fold(GZero, WindowSums(in, b), 1), <<>>)

----------------------------------------------------------------------------
\* The hash harness: inputs are drawn in Init, then the sequential build and
\* the pedersen-parallel build are run on them.

\* Byte sequences of length at most n over ByteVals.
RECURSIVE ByteSeqs(_)
ByteSeqs(n) ==
    IF n = 0 THEN {<<>>}
    ELSE ByteSeqs(n - 1) \cup
         {Append(s, v) : s \in {t \in ByteSeqs(n - 1) : Len(t) = n - 1}, v \in ByteVals}

\* Window lengths of the Parameters values an evaluator is built from (the
\* field is public and From wraps any value): any number of windows from 0
\* to n + 1, the first and the later windows well-sized or not.
Shapes(w, n) ==
    {[i \in 1..m |-> IF i = 1 THEN f ELSE r] :
        m \in 0..(n + 1), f \in {w - 1, w, w + 1}, r \in {w - 1, w}}

WellFormed(b) ==
    /\ Len(b) = NUM_WINDOWS
    /\ \A i \in 1..Len(b) : Len(b[i]) = WINDOW_SIZE

HashInit ==
    /\ WINDOW_SIZE \in 1..MaxWindowSize
    /\ NUM_WINDOWS \in 1..MaxNumWindows
    /\ bases \in {MakeBases(seed, lens) :
                    seed \in Seeds, lens \in Shapes(WINDOW_SIZE, NUM_WINDOWS)}
    /\ input \in ByteSeqs(MaxInputLen)
    /\ pc = "call"
    /\ result = NoOutcome
    /\ paired = <<>>
    /\ partials = <<>>
    /\ identities = 0
    /\ par_result = NoOutcome

\* hash, not(feature = "pedersen-parallel"): lines 41-107
HashSequential ==
    /\ pc = "call"
    /\ result' = hash(input, bases)
    /\ paired' = IF Checks(input, bases).kind = "continue"
                 THEN Paired(input, bases) ELSE <<>>
    /\ pc' = "seq_done"
    /\ UNCHANGED <<WINDOW_SIZE, NUM_WINDOWS, bases, input, partials, identities,
                   par_result>>

\* hash, feature = "pedersen-parallel": the checks, then par_chunks.zip.map
\* (lines 42-85); the window sums are computed independently
HashParallelMap ==
    /\ pc = "seq_done"
    /\ IF Checks(input, bases).kind # "continue"
       THEN /\ par_result' = Checks(input, bases)
            /\ pc' = "done"
            /\ UNCHANGED partials
       ELSE /\ partials' = WindowSums(input, bases)
            /\ pc' = "reduce"
            /\ UNCHANGED par_result
    /\ UNCHANGED <<WINDOW_SIZE, NUM_WINDOWS, bases, input, result, paired, identities>>

ReduceIdentityNonZero == Base(1, 1, 1)

\* line 86: the identity closure given to reduce
ReduceIdentity == GZero

\* line 86: reduce applies |a, b| a + &b to two partial results, in whatever
\* grouping and order the scheduler produces
ReduceCombine ==
    /\ pc = "reduce"
    /\ \E i, j \in 1..Len(partials) :
        /\ i # j
        /\ partials' = [k \in 1..(Len(partials) - 1) |->
                          IF k = Min(i, j) THEN GAdd(partials[i], partials[j])
                          ELSE IF k < (IF i < j THEN j ELSE i) THEN partials[k]
                          ELSE partials[k + 1]]
    /\ UNCHANGED <<WINDOW_SIZE, NUM_WINDOWS, bases, input, pc, result, paired,
                   identities, par_result>>

\* line 86: reduce may start any sub-reduction from identity()
ReduceInsertIdentity ==
    /\ pc = "reduce"
    /\ identities < MaxIdentities
    /\ partials' = Append(partials, ReduceIdentity)
    /\ identities' = identities + 1
    /\ UNCHANGED <<WINDOW_SIZE, NUM_WINDOWS, bases, input, pc, result, paired,
                   par_result>>

\* lines 86, 106: one value is left (identity() for an empty iterator)
ReduceFinish ==
    /\ pc = "reduce"
    /\ Len(partials) <= 1
    /\ par_result' = Outcome("Ok",
                             IF Len(partials) = 0 THEN ReduceIdentity ELSE partials[1],
                             <<>>)
    /\ pc' = "done"
    /\ UNCHANGED <<WINDOW_SIZE, NUM_WINDOWS, bases, input, result, paired, partials,
                   identities>>

----------------------------------------------------------------------------
\* Claims about hash.

Capacity == INPUT_SIZE_BITS

WithinCapacity == Len(input) * 8 <= Capacity

\* n zero bytes
Zeros(n) == [k \in 1..n |-> 0]

\* bit number k (from 0) of the zero-padded input, least-significant bit of
\* each byte first
BitAt(k) ==
    IF (k \div 8) < Len(input)
    THEN (input[(k \div 8) + 1] \div Pow2(k % 8)) % 2
    ELSE 0

\* the sum of bases[i][j] over the bits i * WINDOW_SIZE + j that are 1
RECURSIVE SelectionSum(_)
SelectionSum(k) ==
    IF k = 0 THEN GZero
    ELSE IF BitAt(k - 1) = 1
         THEN GAdd(SelectionSum(k - 1),
                   bases[((k - 1) \div WINDOW_SIZE) + 1][((k - 1) % WINDOW_SIZE) + 1])
         ELSE SelectionSum(k - 1)

\* C1: an input of more than WINDOW_SIZE * NUM_WINDOWS bits is rejected with
\* IncorrectInputLength(len, WINDOW_SIZE, NUM_WINDOWS) whatever the shape of
\* the parameters, and an input within capacity under well-formed parameters
\* never gets that error (in both builds).
C1_CapacityCheck ==
    /\ (pc # "call" /\ ~WithinCapacity) =>
          result = Outcome("IncorrectInputLength", GZero,
                           <<Len(input), WINDOW_SIZE, NUM_WINDOWS>>)
    /\ (pc = "done" /\ ~WithinCapacity) =>
          par_result = Outcome("IncorrectInputLength", GZero,
                               <<Len(input), WINDOW_SIZE, NUM_WINDOWS>>)
    /\ (pc # "call" /\ WithinCapacity /\ WellFormed(bases)) =>
          result.kind # "IncorrectInputLength"
    /\ (pc = "done" /\ WithinCapacity /\ WellFormed(bases)) =>
          par_result.kind # "IncorrectInputLength"

\* an oversized input met parameters with no window at all, and the
\* capacity check won
C1_Witness ==
    /\ pc = "seq_done"
    /\ Len(input) * 8 = Capacity + 8
    /\ Len(bases) = 0
    /\ result.kind = "IncorrectInputLength"

\* C2: with a number of windows other than NUM_WINDOWS (zero included) and
\* an input within capacity, hash returns IncorrectParameterSize(length of
\* the first window, windows present, WINDOW_SIZE, NUM_WINDOWS) and no
\* window was summed.
C2_ShapeCheck ==
    (pc # "call" /\ WithinCapacity /\ Len(bases) # NUM_WINDOWS) =>
        /\ result.kind = "IncorrectParameterSize"
        /\ Len(bases) > 0 =>
              result.args = <<Len(bases[1]), Len(bases), WINDOW_SIZE, NUM_WINDOWS>>
        /\ paired = <<>>

\* C3: under well-formed parameters and an input within capacity, hash
\* returns the identity plus the bases selected by the 1 bits of the
\* zero-padded input (least-significant bit of each byte first), and the
\* identity when every byte is zero.
C3_SelectionSum ==
    (pc # "call" /\ WithinCapacity /\ WellFormed(bases)) =>
        /\ result = Outcome("Ok", SelectionSum(Capacity), <<>>)
        /\ (\A k \in 1..Len(input) : input[k] = 0) => result.value = GZero

\* a two-window hash of an input whose first byte is 1 selected some base
C3_Witness ==
    /\ pc = "seq_done"
    /\ WellFormed(bases)
    /\ NUM_WINDOWS = 2
    /\ Len(input) = 2
    /\ input[1] = 1
    /\ input[2] = 255
    /\ result.kind = "Ok"
    /\ result.value # GZero

\* C4: under well-formed parameters, hashing an input shorter than the
\* capacity gives what hashing it followed by zero bytes (any number up to
\* INPUT_SIZE_BITS / 8 bytes in all) gives.
C4_PaddingEquivalence ==
    (pc # "call" /\ WellFormed(bases) /\ Len(input) * 8 < Capacity) =>
        \A n \in 0..((Capacity \div 8) - Len(input)) :
            hash(input \o Zeros(n), bases) = result

\* a short non-zero input was hashed under parameters that leave room for
\* at least one byte of padding
C4_Witness ==
    /\ pc = "seq_done"
    /\ WellFormed(bases)
    /\ Len(input) = 1
    /\ input[1] = 255
    /\ Capacity = 16
    /\ result.kind = "Ok"
    /\ result.value # GZero

\* C5: the pedersen-parallel build returns what the sequential build
\* returns, value or error, however reduce grouped and ordered the window
\* sums and wherever it inserted identities.
C5_ParallelEqualsSequential == pc = "done" => par_result = result

\* a reduction of two window sums and an inserted identity has finished
C5_Witness ==
    /\ pc = "done"
    /\ NUM_WINDOWS = 2
    /\ identities > 0
    /\ par_result.kind = "Ok"
    /\ par_result.value # GZero

\* C6 as stated: parameters with NUM_WINDOWS windows whose first window does
\* not hold WINDOW_SIZE bases are rejected with IncorrectParameterSize.
C6_FirstWindowValidated ==
    (pc # "call" /\ WithinCapacity /\ Len(bases) = NUM_WINDOWS
        /\ Len(bases[1]) # WINDOW_SIZE) =>
        result.kind = "IncorrectParameterSize"

\* C6 amended: hash validates the number of windows only; parameters with
\* exactly NUM_WINDOWS windows are never rejected with IncorrectParameterSize,
\* whatever the length of the first or of a later window: hash returns Ok.
C6_OnlyWindowCountValidated ==
    (pc # "call" /\ WithinCapacity /\ Len(bases) = NUM_WINDOWS) =>
        result.kind = "Ok"

\* parameters with the right number of windows and a first window of the
\* wrong length were hashed with
C6_Witness ==
    /\ pc = "seq_done"
    /\ WithinCapacity
    /\ Len(bases) = NUM_WINDOWS
    /\ Len(bases[1]) # WINDOW_SIZE
    /\ result.kind = "Ok"

\* what C7 says of the partition
ExactPartition ==
    /\ Len(paired) = NUM_WINDOWS
    /\ \A k \in 1..Len(paired) :
          /\ Len(paired[k][1]) = WINDOW_SIZE
          /\ paired[k][2] = bases[k]

\* C7 as stated: for every positive WINDOW_SIZE and NUM_WINDOWS and every
\* input that passes the capacity check (the parameters being well-formed),
\* hash partitions exactly NUM_WINDOWS chunks
\* of exactly WINDOW_SIZE bits, chunk i paired with window i.
C7_ExactPartitionAnySize ==
    (pc # "call" /\ WellFormed(bases) /\ result.kind = "Ok") => ExactPartition

\* C7 amended: the same, for size descriptors whose WINDOW_SIZE * NUM_WINDOWS
\* is a multiple of 8.
C7_ExactPartitionWholeBytes ==
    (pc # "call" /\ result.kind = "Ok" /\ Capacity % 8 = 0) => ExactPartition

\* a short input was padded and partitioned into two windows
C7_Witness ==
    /\ pc = "seq_done"
    /\ result.kind = "Ok"
    /\ NUM_WINDOWS = 2
    /\ Capacity % 8 = 0
    /\ Len(input) * 8 < Capacity
    /\ Len(paired) = 2

----------------------------------------------------------------------------
\* network/src/server/mod.rs

Addrs == 1..NumAddrs

\* The byte strings a transaction or a block arrives as.
Payloads == {"a"}

\* How TransactionStruct::deserialize and memory_pool.insert can go (lines
\* 31, 39, 40): the bytes do not deserialize, insert returns Err, Ok(None)
\* or Ok(Some(_)).
InsertOutcomes == {"undeserializable", "Err", "None", "Some"}

\* The peer book in the order the loop iterates over it: a map, so no
\* address occurs twice.
PeerBooks ==
    {s \in UNION {[1..n -> Addrs] : n \in 0..NumAddrs} :
        \A i, j \in 1..Len(s) : i # j => s[i] # s[j]}

\* The state of a node when one of the two functions is called: the memory
\* pool holds whatever earlier calls inserted.
NetInit ==
    /\ peer_book \in PeerBooks
    /\ connections \in SUBSET Addrs
    /\ local_addr = 1
    /\ failing = {}
    /\ memory_pool \in SUBSET Payloads
    /\ net_pc = "idle"
    /\ op = "none"
    /\ origin = 1
    /\ data = "a"
    /\ inserted = "none"
    /\ cursor = 0
    /\ written = <<>>
    /\ ret = "none"

FanOutOnAnyOk(outcome) == outcome \in {"None", "Some"}

\* lines 31, 39, 40: if let Ok(transaction), if let Ok(inserted),
\* inserted.is_some()
FanOutReached(outcome) == outcome = "Some"

SkipsOnlyOrigin(socket) == socket # origin

\* lines 44 and 62: the peer is neither the originator nor this node
NotOriginNorLocal(socket) == socket # origin /\ socket # local_addr

\* lines 45 and 63: context.connections holds a channel for the peer
HasChannel(socket) == socket \in connections

ErrorIgnored(socket) == FALSE

\* lines 46 and 64: channel.write(..).await? returns the error of a failed
\* write to the caller
WriteFails(socket) == socket \in failing

\* lines 24-42: the call of process_transaction_internal up to the loop; the
\* memory pool is locked for the rest of the call
ProcessTransactionCall ==
    /\ net_pc = "idle"
    /\ \E sender \in Addrs, bytes \in Payloads, outcome \in InsertOutcomes,
          broken \in SUBSET connections :
        /\ op' = "transaction"
        /\ origin' = sender
        /\ data' = bytes
        /\ inserted' = outcome
        /\ failing' = broken
        /\ memory_pool' = IF outcome = "Some" THEN memory_pool \cup {bytes}
                          ELSE memory_pool
        /\ IF FanOutReached(outcome)
           THEN net_pc' = "loop" /\ ret' = "none"
           ELSE net_pc' = "done" /\ ret' = "Ok"
    /\ cursor' = 0
    /\ written' = <<>>
    /\ UNCHANGED <<peer_book, connections, local_addr>>

\* lines 58-60: the call of propagate_block up to the loop
PropagateBlockCall ==
    /\ net_pc = "idle"
    /\ \E block_miner \in Addrs, bytes \in Payloads, broken \in SUBSET connections :
        /\ origin' = block_miner
        /\ data' = bytes
        /\ failing' = broken
    /\ op' = "block"
    /\ inserted' = "none"
    /\ net_pc' = "loop"
    /\ ret' = "none"
    /\ cursor' = 0
    /\ written' = <<>>
    /\ UNCHANGED <<peer_book, connections, local_addr, memory_pool>>

\* one iteration of a fan-out loop over the peer book
FanOutIteration(socket) ==
    IF NotOriginNorLocal(socket) /\ HasChannel(socket)
    THEN IF WriteFails(socket)
         THEN /\ ret' = "SendError"
              /\ net_pc' = "done"
              /\ UNCHANGED <<cursor, written>>
         ELSE /\ written' = Append(written, socket)
              /\ cursor' = cursor + 1
              /\ UNCHANGED <<ret, net_pc>>
    ELSE /\ cursor' = cursor + 1
         /\ UNCHANGED <<ret, net_pc, written>>

\* lines 43-49: one iteration of the loop of process_transaction_internal
TransactionFanOutStep ==
    /\ net_pc = "loop"
    /\ op = "transaction"
    /\ cursor < Len(peer_book)
    /\ FanOutIteration(peer_book[cursor + 1])
    /\ UNCHANGED <<peer_book, connections, local_addr, failing, memory_pool, op,
                   origin, data, inserted>>

\* line 54: the loop of process_transaction_internal is over
TransactionReturn ==
    /\ net_pc = "loop"
    /\ op = "transaction"
    /\ cursor = Len(peer_book)
    /\ ret' = "Ok"
    /\ net_pc' = "done"
    /\ UNCHANGED <<peer_book, connections, local_addr, failing, memory_pool, op,
                   origin, data, inserted, cursor, written>>

\* lines 61-67: one iteration of the loop of propagate_block
BlockFanOutStep ==
    /\ net_pc = "loop"
    /\ op = "block"
    /\ cursor < Len(peer_book)
    /\ FanOutIteration(peer_book[cursor + 1])
    /\ UNCHANGED <<peer_book, connections, local_addr, failing, memory_pool, op,
                   origin, data, inserted>>

\* line 68: the loop of propagate_block is over
BlockReturn ==
    /\ net_pc = "loop"
    /\ op = "block"
    /\ cursor = Len(peer_book)
    /\ ret' = "Ok"
    /\ net_pc' = "done"
    /\ UNCHANGED <<peer_book, connections, local_addr, failing, memory_pool, op,
                   origin, data, inserted, cursor, written>>

----------------------------------------------------------------------------
\* Claims about the relay.

\* the peer-book addresses a message of this execution is meant for
Eligible(a) ==
    /\ \E k \in 1..Len(peer_book) : peer_book[k] = a
    /\ a \in connections
    /\ a # origin
    /\ a # local_addr

Occurrences(s, a) == Cardinality({k \in 1..Len(s) : s[k] = a})

\* the execution is one that fans out: propagate_block, or
\* process_transaction_internal whose insert returned Ok(Some(_))
FansOut == op = "block" \/ (op = "transaction" /\ inserted = "Some")

\* the peer-book position of the first eligible peer whose write fails
\* (Len(peer_book) + 1 when there is none)
RECURSIVE FirstFailure(_)
FirstFailure(k) ==
    IF k > Len(peer_book) THEN k
    ELSE IF Eligible(peer_book[k]) /\ peer_book[k] \in failing THEN k
    ELSE FirstFailure(k + 1)

\* the eligible peers among the first n of the peer book, in order
RECURSIVE EligibleUpTo(_)
EligibleUpTo(n) ==
    IF n = 0 THEN <<>>
    ELSE IF Eligible(peer_book[n]) THEN Append(EligibleUpTo(n - 1), peer_book[n])
    ELSE EligibleUpTo(n - 1)

\* every address written to is an eligible one
WritesOnlyEligible == \A k \in 1..Len(written) : Eligible(written[k])

\* C8 as stated: every write goes to a peer-book address with a channel that
\* is neither the originator nor this node, and in every execution in which
\* no write fails every such address is written to exactly once.
C8_FanOutEveryExecution ==
    /\ WritesOnlyEligible
    /\ (net_pc = "done" /\ ret = "Ok") =>
          \A a \in Addrs : Eligible(a) => Occurrences(written, a) = 1

\* C8 amended: the same, the second half for the executions that fan out
\* (propagate_block, and process_transaction_internal when the memory pool
\* accepted the transaction).
C8_FanOut ==
    /\ WritesOnlyEligible
    /\ (net_pc = "done" /\ ret = "Ok" /\ FansOut) =>
          \A a \in Addrs :
              Occurrences(written, a) = (IF Eligible(a) THEN 1 ELSE 0)

\* a transaction was relayed to two peers while the peer book also held the
\* sender and this node
C8_Witness ==
    /\ net_pc = "done"
    /\ op = "transaction"
    /\ ret = "Ok"
    /\ Len(written) >= 1
    /\ Len(peer_book) = NumAddrs
    /\ origin # local_addr
    /\ origin \in connections
    /\ local_addr \in connections

\* C9: process_transaction_internal writes to a peer only after insert
\* returned Ok(Some(_)), the transaction then being in the memory pool; when
\* the bytes do not deserialize or insert returns Err or Ok(None), nothing
\* is written and the function returns Ok(()).
C9_InsertThenFanOut ==
    op = "transaction" =>
        /\ Len(written) > 0 => (inserted = "Some" /\ data \in memory_pool)
        /\ inserted # "Some" => (net_pc = "done" /\ ret = "Ok" /\ written = <<>>)

\* insert returned Ok(None) while an eligible peer was connected
C9_Witness ==
    /\ op = "transaction"
    /\ inserted = "None"
    /\ net_pc = "done"
    /\ \E a \in Addrs : Eligible(a)

\* C10: when a write fails the function returns SendError at once: exactly
\* the eligible peers before the failing one have been written to, none
\* after it, and the transaction stays in the memory pool; and a failing
\* write to an eligible peer is never passed over.
C10_StopsAtFirstFailure ==
    /\ (net_pc = "done" /\ ret = "SendError") =>
          /\ FirstFailure(1) <= Len(peer_book)
          /\ written = EligibleUpTo(FirstFailure(1) - 1)
          /\ op = "transaction" => data \in memory_pool
    /\ (net_pc = "done" /\ FansOut /\ FirstFailure(1) <= Len(peer_book)) =>
          ret = "SendError"

\* a write failed after one peer was written to and before another
\* eligible peer was reached
C10_Witness ==
    /\ net_pc = "done"
    /\ op = "transaction"
    /\ ret = "SendError"
    /\ Len(written) = 1
    /\ FirstFailure(1) < Len(peer_book)
    /\ Eligible(peer_book[Len(peer_book)])

----------------------------------------------------------------------------
\* Specifications.

NetQuiet ==
    /\ peer_book = <<>>
    /\ connections = {}
    /\ local_addr = 1
    /\ failing = {}
    /\ memory_pool = {}
    /\ net_pc = "idle"
    /\ op = "none"
    /\ origin = 1
    /\ data = "a"
    /\ inserted = "none"
    /\ cursor = 0
    /\ written = <<>>
    /\ ret = "none"

HashQuiet ==
    /\ WINDOW_SIZE = 1
    /\ NUM_WINDOWS = 1
    /\ bases = <<>>
    /\ input = <<>>
    /\ pc = "call"
    /\ result = NoOutcome
    /\ paired = <<>>
    /\ partials = <<>>
    /\ identities = 0
    /\ par_result = NoOutcome

\* the hash, on inputs drawn in Init
Init == HashInit /\ NetQuiet

Next ==
    \/ HashSequential /\ UNCHANGED netVars
    \/ HashParallelMap /\ UNCHANGED netVars
    \/ ReduceCombine /\ UNCHANGED netVars
    \/ ReduceInsertIdentity /\ UNCHANGED netVars
    \/ ReduceFinish /\ UNCHANGED netVars

Spec == Init /\ [][Next]_vars

\* the relay, on a node whose peer book and connections are drawn in Init
NetSpecInit == NetInit /\ HashQuiet

NetNext ==
    \/ ProcessTransactionCall /\ UNCHANGED hashVars
    \/ PropagateBlockCall /\ UNCHANGED hashVars
    \/ TransactionFanOutStep /\ UNCHANGED hashVars
    \/ TransactionReturn /\ UNCHANGED hashVars
    \/ BlockFanOutStep /\ UNCHANGED hashVars
    \/ BlockReturn /\ UNCHANGED hashVars

NetSpec == NetSpecInit /\ [][NetNext]_vars

====
